---- MODULE Spec2Model ----
(***************************************************************************)
(* Model of alpaca_mcp_server.py: the lifespan context manager that        *)
(* publishes the two Alpaca client handles, and the nine handlers that     *)
(* read them and proxy one request each to the external API.               *)
(*                                                                         *)
(* Conventions.                                                            *)
(*  - A Python str that is case-converted (symbol, side) is a sequence of  *)
(*    one-character strings; a rendered text is a sequence of strings      *)
(*    (literal chunks, and the characters or values interpolated into      *)
(*    them), and concatenation is \o.                                      *)
(*  - The outcome of running a block of Python is a record                 *)
(*    [raised, exc, text, calls]: either it returned `text` or an          *)
(*    Exception `exc` is in flight; `calls` lists the external API calls   *)
(*    the block made, in order.                                            *)
(*  - Decimal strings of the API ("3.0") are kept as strings; float() maps *)
(*    them to integer cents.                                               *)
(***************************************************************************)
EXTENDS Integers, Sequences, FiniteSets, TLC

VARIABLES
    ALPACA_API_KEY,     \* module constant read from the environment
    ALPACA_API_SECRET,  \* module constant read from the environment
    trading_client,     \* global handle, None or a TradingClient
    data_client,        \* global handle, None or a StockHistoricalDataClient
    pc,                 \* position of the alpaca_lifespan generator
    built,              \* clients constructed in the current lifespan scope
    exit_cause,         \* how the last lifespan scope left, "" if none did yet
    last,               \* the last handler invocation and its outcome
    task                \* the handler coroutine the event loop is running

vars == <<ALPACA_API_KEY, ALPACA_API_SECRET, trading_client, data_client,
          pc, built, exit_cause, last, task>>

(***************************************************************************)
(* Bounds.                                                                 *)
(***************************************************************************)
MaxPositions == 6
MaxOrders == 2
MaxBars == 2

(***************************************************************************)
(* Python values.                                                          *)
(***************************************************************************)
None == "None"
TradingClient == "TradingClient"
StockHistoricalDataClient == "StockHistoricalDataClient"

\* os.getenv(...) of a credential: unset, set to the empty string, or set.
EnvValues == {None, "", "PK123"}

\* Truthiness of a str-or-None value, as `not x` uses it.
Truthy(x) == x # None /\ x # ""

(***************************************************************************)
(* str.upper / str.lower on sequences of characters.                       *)
(***************************************************************************)
CasePairs ==
    { <<"a", "A">>, <<"b", "B">>, <<"d", "D">>, <<"e", "E">>, <<"f", "F">>,
      <<"h", "H">>, <<"l", "L">>, <<"o", "O">>, <<"p", "P">>, <<"s", "S">>,
      <<"u", "U">>, <<"y", "Y">> }

UpperChar(c) ==
    IF \E p \in CasePairs : p[1] = c
    THEN (CHOOSE p \in CasePairs : p[1] = c)[2]
    ELSE c

LowerChar(c) ==
    IF \E p \in CasePairs : p[2] = c
    THEN (CHOOSE p \in CasePairs : p[2] = c)[1]
    ELSE c

upper(s) == [i \in 1..Len(s) |-> UpperChar(s[i])]

lower(s) == [i \in 1..Len(s) |-> LowerChar(s[i])]

(***************************************************************************)
(* Texts.                                                                  *)
(***************************************************************************)
Contains(t, sub) ==
    \E i \in 0..(Len(t) - Len(sub)) : SubSeq(t, i + 1, i + Len(sub)) = sub

BeginsWith(t, p) ==
    Len(p) <= Len(t) /\ SubSeq(t, 1, Len(p)) = p

(***************************************************************************)
(* Outcomes of a block of Python, and try/except Exception.                *)
(***************************************************************************)
Return(t, cs) == [raised |-> FALSE, exc |-> "", text |-> t, calls |-> cs]

Raise(e, cs) == [raised |-> TRUE, exc |-> e, text |-> <<>>, calls |-> cs]

\* str(e)
str(e) == <<e>>

\* try: <body> except Exception as e: return f"<prefix> {str(e)}"
TryExcept(body, prefix) ==
    IF body.raised
    THEN Return(prefix \o str(body.exc), body.calls)
    ELSE body

(***************************************************************************)
(* The external API: what a call is, and what it may answer.               *)
(***************************************************************************)
\* One external call: the client and method, the request, and the answer.
Call(client, method, request, answer) ==
    [client |-> client, method |-> method, request |-> request,
     answer |-> answer]

Faults == {"APIError: forbidden", "ConnectionError"}

Fault(e) == [fault |-> TRUE, exc |-> e]

Ok(v) == [fault |-> FALSE, value |-> v]

NoRequest == [kind |-> "none"]

Accounts ==
    { [id |-> "acct-1", status |-> "ACTIVE", cash |-> "1000.0",
       portfolio_value |-> "1600.0", buying_power |-> "2000.0",
       equity |-> "1600.0", pattern_day_trader |-> "False",
       trading_blocked |-> "False", account_blocked |-> "False",
       created_at |-> "2024-01-02"] }

GetAccountAnswers == {Ok(a) : a \in Accounts} \cup {Fault(e) : e \in Faults}

\* A decimal string of the API and the number float() gives for it, in cents.
Decimals ==
    { <<"0.0", 0>>, <<"0.5", 50>>, <<"1.0", 100>>, <<"1.5", 150>>,
      <<"2.0", 200>>, <<"3.0", 300>>, <<"3.00", 300>>, <<"10.0", 1000>>,
      <<"-1.0", -100>>, <<"-2.25", -225>> }

float(s) == (CHOOSE p \in Decimals : p[1] = s)[2]

Position(sym, mv, pl) ==
    [symbol |-> sym, qty |-> "1", side |-> "long", market_value |-> mv,
     cost_basis |-> "1.0", unrealized_pl |-> pl, unrealized_plpc |-> "0.5",
     current_price |-> "1.0"]

\* The positions an account may hold: one per symbol, with equal market values
\* under different and under equal spellings, and a negative one.
PositionPool ==
    { Position("AAPL", "3.0", "1.5"), Position("BAC", "1.0", "-2.25"),
      Position("CSCO", "3.00", "0.0"), Position("DIS", "2.0", "1.5"),
      Position("EBAY", "-1.0", "-2.25"), Position("F", "10.0", "0.5"),
      Position("GE", "2.0", "0.5") }

Range(s) == {s[i] : i \in 1..Len(s)}

\* The sequences of n distinct members of S.
RECURSIVE DistinctSeqs(_, _)
DistinctSeqs(S, n) ==
    IF n = 0
    THEN {<<>>}
    ELSE UNION { {Append(s, x) : x \in S \ Range(s)} : s \in DistinctSeqs(S, n - 1) }

DistinctSeqsUpTo(S, n) == UNION {DistinctSeqs(S, k) : k \in 0..n}

PositionLists == DistinctSeqsUpTo(PositionPool, MaxPositions)

GetAllPositionsAnswers ==
    {Ok(ps) : ps \in PositionLists} \cup {Fault(e) : e \in Faults}

Quotes ==
    { [ask_price |-> "10.0", ask_size |-> "1", bid_price |-> "3.0",
       bid_size |-> "2", timestamp |-> "2024-01-02T10:00"] }

OtherSymbol == <<"Z">>

\* A latest-quote answer is a mapping from symbols to quotes: empty, holding
\* the requested symbol, or holding another symbol only.
GetQuoteAnswers(symbol) ==
    {Ok(<<>>)}
      \cup {Ok([k \in {symbol} |-> q]) : q \in Quotes}
      \cup {Ok([k \in {OtherSymbol} |-> q]) : q \in Quotes}
      \cup {Fault(e) : e \in Faults}

BarPool ==
    { [date |-> "2024-01-02", open |-> "1.0", high |-> "2.0", low |-> "0.5",
       close |-> "1.5", volume |-> "100"],
      [date |-> "2024-01-03", open |-> "1.5", high |-> "3.0", low |-> "1.0",
       close |-> "2.0", volume |-> "200"] }

BarLists == DistinctSeqsUpTo(BarPool, MaxBars)

GetBarsAnswers(symbol) ==
    {Ok(<<>>)}
      \cup {Ok([k \in {symbol} |-> bs]) : bs \in BarLists}
      \cup {Ok([k \in {OtherSymbol} |-> bs]) : bs \in BarLists}
      \cup {Fault(e) : e \in Faults}

OrderIds == {"o-1", "o-2", "o-3"}

OrderStatuses == {"accepted", "pending_new"}

OrderPool ==
    { [id |-> "o-1", symbol |-> "F", type |-> "market", side |-> "buy",
       qty |-> "1", status |-> "filled", created_at |-> "2024-01-02"],
      [id |-> "o-2", symbol |-> "AAPL", type |-> "limit", side |-> "sell",
       qty |-> "2", status |-> "canceled", created_at |-> "2024-01-03"],
      [id |-> "o-3", symbol |-> "F", type |-> "limit", side |-> "buy",
       qty |-> "1", status |-> "new", created_at |-> "2024-01-03"] }

OrderLists == DistinctSeqsUpTo(OrderPool, MaxOrders)

GetOrdersAnswers ==
    {Ok(os) : os \in OrderLists} \cup {Fault(e) : e \in Faults}

\* The symbols a caller passes: empty, lower, upper and mixed case.
Symbols ==
    { <<>>, <<"f">>, <<"F">>, <<"a", "a", "p", "l">>, <<"A", "a", "P", "l">> }

RECURSIVE ConcatAll(_)
ConcatAll(ss) == IF ss = <<>> THEN <<>> ELSE Head(ss) \o ConcatAll(Tail(ss))

\* The side strings a caller passes: both sides in several letter cases, and
\* strings that are neither.
Sides ==
    { <<"b", "u", "y">>, <<"B", "U", "Y">>, <<"B", "u", "y">>,
      <<"s", "e", "l", "l">>, <<"S", "E", "L", "L">>, <<"s", "E", "l", "L">>,
      <<"h", "o", "l", "d">>, <<"b", "u", "y", "s">>, <<>> }

Qtys == {-1, 0, 1, 2}

LimitPrices == {-1, 0, 1, 150}

\* submit_order answers with the order it created for the request, under an
\* identifier and in a status of the API's choosing, or raises.
SubmitOrderAnswers(order_details) ==
    { Ok([id |-> i, symbol |-> order_details.symbol,
          side |-> order_details.side, qty |-> ToString(order_details.qty),
          type |-> IF order_details.kind = "LimitOrderRequest"
                   THEN "limit" ELSE "market",
          limit_price |-> IF order_details.kind = "LimitOrderRequest"
                          THEN ToString(order_details.limit_price) ELSE None,
          status |-> st, submitted_at |-> "2024-01-03T10:00"])
        : i \in OrderIds, st \in OrderStatuses }
      \cup {Fault(e) : e \in Faults}

\* The order identifiers a caller passes to cancel_order.
CancelIds == {"123", "o-1", ""}

CancelAnswers == {Ok(None)} \cup {Fault(e) : e \in Faults}

(***************************************************************************)
(* The event loop.  Every handler is a coroutine with no await in it: once *)
(* the loop has started one it runs it to its return, from the check of    *)
(* the handle to the call through it, before it resumes anything else.     *)
(***************************************************************************)
Handlers ==
    { "get_account_info", "get_all_positions", "get_quote", "get_bars",
      "get_recent_orders", "place_market_order", "place_limit_order",
      "cancel_order", "get_portfolio_summary" }

\* No handler is running.
Idle == [handler |-> "none", trading_client |-> None, data_client |-> None]

\* A handler whose step would be cut in two by an await between its check of
\* the handle and its call: the loop may resume the lifespan generator while
\* the handler is suspended there.
EventLoopFree_handler_awaits == TRUE

\* The loop can resume the lifespan generator: no handler is in its step.
EventLoopFree == task = Idle

(***************************************************************************)
(* alpaca_lifespan                                                         *)
(***************************************************************************)
\* The credential check with `and` for `or`.
CredentialsMissing_both == ~Truthy(ALPACA_API_KEY) /\ ~Truthy(ALPACA_API_SECRET)

CredentialsMissing == ~Truthy(ALPACA_API_KEY) \/ ~Truthy(ALPACA_API_SECRET)

\* Entering the scope: the credential check, before the try block.
LifespanEnter ==
    /\ EventLoopFree
    /\ pc \in {"not_entered", "exited"}
    /\ built' = {}
    /\ IF CredentialsMissing
       THEN /\ pc' = "exited"
            /\ exit_cause' = "ValueError"
       ELSE /\ pc' = "in_try"
            /\ exit_cause' = ""
    /\ UNCHANGED <<ALPACA_API_KEY, ALPACA_API_SECRET, trading_client,
                   data_client, last, task>>

\* trading_client = TradingClient(...): the constructor returns or raises.
ConstructTradingClient ==
    /\ EventLoopFree
    /\ pc = "in_try"
    /\ \E ok \in BOOLEAN :
        IF ok
        THEN /\ trading_client' = TradingClient
             /\ built' = built \cup {"trading"}
             /\ pc' = "trading_built"
        ELSE /\ pc' = "except"
             /\ UNCHANGED <<trading_client, built>>
    /\ UNCHANGED <<ALPACA_API_KEY, ALPACA_API_SECRET, data_client,
                   exit_cause, last, task>>

\* data_client = StockHistoricalDataClient(...), then the yield is reached.
ConstructDataClient ==
    /\ EventLoopFree
    /\ pc = "trading_built"
    /\ \E ok \in BOOLEAN :
        IF ok
        THEN /\ data_client' = StockHistoricalDataClient
             /\ built' = built \cup {"data"}
             /\ pc' = "yielded"
        ELSE /\ pc' = "except"
             /\ UNCHANGED <<data_client, built>>
    /\ UNCHANGED <<ALPACA_API_KEY, ALPACA_API_SECRET, trading_client,
                   exit_cause, last, task>>

\* The body of the `async with` ends: normally, with an Exception thrown in
\* at the yield, or with a BaseException (cancellation) thrown in.
ScopeBodyEnds ==
    /\ EventLoopFree
    /\ pc = "yielded"
    /\ \E how \in {"return", "Exception", "BaseException"} :
        /\ pc' = IF how = "Exception" THEN "except" ELSE "finally"
        /\ exit_cause' = how
    /\ UNCHANGED <<ALPACA_API_KEY, ALPACA_API_SECRET, trading_client,
                   data_client, built, last, task>>

\* The clean-up written after the try statement instead of in a finally
\* clause: the re-raise of the except clause leaves the scope without it.
ExceptClause_skips_cleanup ==
    /\ EventLoopFree
    /\ pc = "except"
    /\ pc' = "exited"
    /\ exit_cause' = "Exception"
    /\ UNCHANGED <<ALPACA_API_KEY, ALPACA_API_SECRET, trading_client,
                   data_client, built, last, task>>

\* except Exception as e: log and re-raise.
ExceptClause ==
    /\ EventLoopFree
    /\ pc = "except"
    /\ pc' = "finally"
    /\ exit_cause' = "Exception"
    /\ UNCHANGED <<ALPACA_API_KEY, ALPACA_API_SECRET, trading_client,
                   data_client, built, last, task>>

\* The finally clause with the reset of trading_client forgotten.
FinallyClause_data_only ==
    /\ EventLoopFree
    /\ pc = "finally"
    /\ data_client' = None
    /\ pc' = "exited"
    /\ UNCHANGED <<ALPACA_API_KEY, ALPACA_API_SECRET, trading_client, built,
                   exit_cause, last, task>>

\* finally: both globals are set to None.
FinallyClause ==
    /\ EventLoopFree
    /\ pc = "finally"
    /\ trading_client' = None
    /\ data_client' = None
    /\ pc' = "exited"
    /\ UNCHANGED <<ALPACA_API_KEY, ALPACA_API_SECRET, built, exit_cause, last, task>>

(***************************************************************************)
(* Handlers.  The lifespan generator has no suspension point between its   *)
(* entry and its yield, nor between the resumption and its end, so a       *)
(* handler runs only before the scope is entered, while it is yielded, or  *)
(* after it has exited.                                                    *)
(***************************************************************************)
HandlerMayRun ==
    /\ pc \in {"not_entered", "yielded", "exited"}
    /\ last.handler = "none"
    /\ task = Idle

\* The loop starts handler h: its `if not <client>` reads the global.
HandlerStarts ==
    /\ HandlerMayRun
    /\ \E h \in Handlers :
         task' = [handler |-> h, trading_client |-> trading_client,
                  data_client |-> data_client]
    /\ UNCHANGED <<ALPACA_API_KEY, ALPACA_API_SECRET, trading_client,
                   data_client, pc, built, exit_cause, last>>

\* Handler h has passed its check and goes on to its call and its return.
Running(h) == task.handler = h

NotInitialized(which) == <<"Error", ":", which, "client", "not", "initialized">>

get_account_info(tc, answer) ==
    IF tc = None
    THEN Return(NotInitialized("Trading"), <<>>)
    ELSE TryExcept(
           LET cs == <<Call("trading", "get_account", NoRequest, answer)>> IN
           IF answer.fault
           THEN Raise(answer.exc, cs)
           ELSE LET account == answer.value IN
                Return(<<"Account Information:",
                         "- Account ID:", account.id,
                         "- Status:", account.status,
                         "- Cash: $", account.cash,
                         "- Portfolio Value: $", account.portfolio_value,
                         "- Buying Power: $", account.buying_power,
                         "- Equity: $", account.equity,
                         "- Pattern Day Trader:", account.pattern_day_trader,
                         "- Trading Blocked:", account.trading_blocked,
                         "- Account Blocked:", account.account_blocked,
                         "- Created At:", account.created_at>>, cs),
           <<"Error", "fetching", "account", "information", ":">>)

get_all_positions(tc, answer) ==
    IF tc = None
    THEN Return(NotInitialized("Trading"), <<>>)
    ELSE TryExcept(
           LET cs == <<Call("trading", "get_all_positions", NoRequest, answer)>> IN
           IF answer.fault
           THEN Raise(answer.exc, cs)
           ELSE LET positions == answer.value IN
                IF positions = <<>>
                THEN Return(<<"No open positions found.">>, cs)
                ELSE Return(<<"Current Positions:">> \o
                            ConcatAll([i \in 1..Len(positions) |->
                              LET pos == positions[i] IN
                              <<"Symbol:", pos.symbol,
                                "Quantity:", pos.qty,
                                "Side:", pos.side,
                                "Market Value: $", pos.market_value,
                                "Cost Basis: $", pos.cost_basis,
                                "Unrealized P/L: $", pos.unrealized_pl,
                                "(", pos.unrealized_plpc, "%)",
                                "Current Price: $", pos.current_price,
                                "-----">>]), cs),
           <<"Error", "fetching", "positions", ":">>)

\* get_quote without its try/except: a fault of the API call leaves the handler.
get_quote_no_except(dc, symbol0, answer) ==
    IF symbol0 = <<>>
    THEN Return(<<"Error", ":", "Symbol", "parameter", "is", "required">>, <<>>)
    ELSE LET symbol == upper(symbol0)
             request_params ==
                 [kind |-> "StockLatestQuoteRequest",
                  symbol_or_symbols |-> symbol, feed |-> "iex"]
             cs == <<Call("data", "get_stock_latest_quote", request_params, answer)>>
         IN
         IF dc = None
         THEN Return(NotInitialized("Data"), <<>>)
         ELSE IF answer.fault
         THEN Raise(answer.exc, cs)
         ELSE Return(<<"Latest", "Quote", "for">> \o symbol, cs)

get_quote(dc, symbol0, answer) ==
    IF symbol0 = <<>>
    THEN Return(<<"Error", ":", "Symbol", "parameter", "is", "required">>, <<>>)
    ELSE LET symbol == upper(symbol0) IN
         IF dc = None
         THEN Return(NotInitialized("Data"), <<>>)
         ELSE TryExcept(
                LET request_params ==
                        [kind |-> "StockLatestQuoteRequest",
                         symbol_or_symbols |-> symbol, feed |-> "iex"]
                    cs == <<Call("data", "get_stock_latest_quote", request_params, answer)>>
                IN
                IF answer.fault
                THEN Raise(answer.exc, cs)
                ELSE LET quote == answer.value IN
                     IF DOMAIN quote = {} \/ symbol \notin DOMAIN quote
                     THEN Return(<<"No", "quote", "data", "found", "for">> \o symbol, cs)
                     ELSE LET quote_data == quote[symbol] IN
                          Return(<<"Latest", "Quote", "for">> \o symbol \o
                                 <<":",
                                   "- Ask Price: $", quote_data.ask_price,
                                   "- Ask Size:", quote_data.ask_size,
                                   "- Bid Price: $", quote_data.bid_price,
                                   "- Bid Size:", quote_data.bid_size,
                                   "- Timestamp:", quote_data.timestamp>>, cs),
                <<"Error", "fetching", "quote", "for">> \o symbol
                             \o <<":">>)

\* get_bars without its check of data_client: with the handle None the method
\* lookup raises AttributeError inside the try, and no request is sent.
get_bars_no_client_check(dc, symbol0, answer) ==
    IF symbol0 = <<>>
    THEN Return(<<"Error", ":", "Symbol", "parameter", "is", "required">>, <<>>)
    ELSE LET symbol == upper(symbol0)
             request_params ==
                 [kind |-> "StockBarsRequest",
                  symbol_or_symbols |-> symbol, timeframe |-> "Day",
                  start |-> "now - 7 days", end |-> "now", feed |-> "iex"]
         IN
         TryExcept(
           IF dc = None
           THEN Raise("AttributeError: 'NoneType' object has no attribute 'get_stock_bars'",
                      <<>>)
           ELSE IF answer.fault
           THEN Raise(answer.exc,
                      <<Call("data", "get_stock_bars", request_params, answer)>>)
           ELSE Return(<<"Historical", "Daily", "Bars", "for">> \o symbol,
                       <<Call("data", "get_stock_bars", request_params, answer)>>),
           <<"Error", "fetching", "bars", "for">> \o symbol
                        \o <<":">>)

get_bars(dc, symbol0, answer) ==
    IF symbol0 = <<>>
    THEN Return(<<"Error", ":", "Symbol", "parameter", "is", "required">>, <<>>)
    ELSE LET symbol == upper(symbol0) IN
         IF dc = None
         THEN Return(NotInitialized("Data"), <<>>)
         ELSE TryExcept(
                LET request_params ==
                        [kind |-> "StockBarsRequest",
                         symbol_or_symbols |-> symbol, timeframe |-> "Day",
                         start |-> "now - 7 days", end |-> "now", feed |-> "iex"]
                    cs == <<Call("data", "get_stock_bars", request_params, answer)>>
                IN
                IF answer.fault
                THEN Raise(answer.exc, cs)
                ELSE LET bars == answer.value IN
                     IF DOMAIN bars = {} \/ symbol \notin DOMAIN bars
                     THEN Return(<<"No", "historical", "data", "found", "for">>
                                   \o symbol, cs)
                     ELSE LET bars_data == bars[symbol] IN
                          Return(<<"Historical", "Daily", "Bars", "for">> \o symbol
                                   \o <<"(Last 7 days):">> \o
                                 ConcatAll([i \in 1..Len(bars_data) |->
                                   LET bar == bars_data[i] IN
                                   <<"Date:", bar.date,
                                     "Open: $", bar.open,
                                     "High: $", bar.high,
                                     "Low: $", bar.low,
                                     "Close: $", bar.close,
                                     "Volume:", bar.volume,
                                     "-----">>]), cs),
                <<"Error", "fetching", "bars", "for">> \o symbol
                             \o <<":">>)

\* get_recent_orders that asks a second time when the first request faults.
get_recent_orders_retry(tc, answer) ==
    IF tc = None
    THEN Return(NotInitialized("Trading"), <<>>)
    ELSE TryExcept(
           LET request_params ==
                   [kind |-> "GetOrdersRequest", status |-> "ALL", limit |-> 20,
                    after |-> "now - 7 days", until |-> "now"]
               c == Call("trading", "get_orders", request_params, answer)
           IN
           IF answer.fault
           THEN Raise(answer.exc, <<c, c>>)
           ELSE Return(<<"Recent Orders (Last 7 days):">>, <<c>>),
           <<"Error", "fetching", "recent", "orders", ":">>)

get_recent_orders(tc, answer) ==
    IF tc = None
    THEN Return(NotInitialized("Trading"), <<>>)
    ELSE TryExcept(
           LET request_params ==
                   [kind |-> "GetOrdersRequest", status |-> "ALL", limit |-> 20,
                    after |-> "now - 7 days", until |-> "now"]
               cs == <<Call("trading", "get_orders", request_params, answer)>>
           IN
           IF answer.fault
           THEN Raise(answer.exc, cs)
           ELSE LET orders == answer.value IN
                IF orders = <<>>
                THEN Return(<<"No recent orders found.">>, cs)
                ELSE Return(<<"Recent Orders (Last 7 days):">> \o
                            ConcatAll([i \in 1..Len(orders) |->
                              LET order == orders[i] IN
                              <<"Order ID:", order.id,
                                "Symbol:", order.symbol,
                                "Type:", order.type,
                                "Side:", order.side,
                                "Qty:", order.qty,
                                "Status:", order.status,
                                "Created At:", order.created_at,
                                "-----">>]), cs),
           <<"Error", "fetching", "recent", "orders", ":">>)

\* OrderSide.BUY if side == 'buy' else OrderSide.SELL
OrderSide(side) == IF side = <<"b", "u", "y">> THEN "BUY" ELSE "SELL"

ValidSides == { <<"b", "u", "y">>, <<"s", "e", "l", "l">> }

\* place_market_order that rejects only negative quantities (qty < 0).
place_market_order_accepts_zero(tc, symbol0, side0, qty, answer) ==
    IF tc = None
    THEN Return(NotInitialized("Trading"), <<>>)
    ELSE TryExcept(
           LET symbol == upper(symbol0)
               side == lower(side0)
           IN
           IF side \notin ValidSides
           THEN Return(<<"Error", ":", "Invalid", "side", "'">> \o side
                         \o <<"'.", "Must be 'buy' or 'sell'.">>, <<>>)
           ELSE IF qty < 0
           THEN Return(<<"Error", ":", "Quantity", "must", "be", "greater",
                         "than", "0.">>, <<>>)
           ELSE LET order_details ==
                        [kind |-> "MarketOrderRequest", symbol |-> symbol,
                         qty |-> qty, side |-> OrderSide(side),
                         time_in_force |-> "DAY"]
                    cs == <<Call("trading", "submit_order", order_details, answer)>>
                IN
                IF answer.fault
                THEN Raise(answer.exc, cs)
                ELSE LET order == answer.value IN
                     Return(<<"Market Order Submitted:", "Order ID:", order.id,
                              "Status:", order.status>>, cs),
           <<"Error", "placing", "market", "order", ":">>)

place_market_order(tc, symbol0, side0, qty, answer) ==
    IF tc = None
    THEN Return(NotInitialized("Trading"), <<>>)
    ELSE TryExcept(
           LET symbol == upper(symbol0)
               side == lower(side0)
           IN
           IF side \notin ValidSides
           THEN Return(<<"Error", ":", "Invalid", "side", "'">> \o side
                         \o <<"'.", "Must be 'buy' or 'sell'.">>, <<>>)
           ELSE IF qty <= 0
           THEN Return(<<"Error", ":", "Quantity", "must", "be", "greater",
                         "than", "0.">>, <<>>)
           ELSE LET order_details ==
                        [kind |-> "MarketOrderRequest", symbol |-> symbol,
                         qty |-> qty, side |-> OrderSide(side),
                         time_in_force |-> "DAY"]
                    cs == <<Call("trading", "submit_order", order_details, answer)>>
                IN
                IF answer.fault
                THEN Raise(answer.exc, cs)
                ELSE LET order == answer.value IN
                     Return(<<"Market Order Submitted:", "Order ID:", order.id,
                              "Symbol:">> \o order.symbol \o
                            <<"Side:", order.side,
                              "Qty:", order.qty,
                              "Type:", order.type,
                              "Status:", order.status,
                              "Submitted At:", order.submitted_at>>, cs),
           <<"Error", "placing", "market", "order", ":">>)

\* place_limit_order that submits the symbol as the caller spelled it.
place_limit_order_symbol_as_given(tc, symbol0, side0, qty, limit_price, answer) ==
    IF tc = None
    THEN Return(NotInitialized("Trading"), <<>>)
    ELSE TryExcept(
           LET symbol == symbol0
               side == lower(side0)
           IN
           IF side \notin ValidSides
           THEN Return(<<"Error", ":", "Invalid", "side", "'">> \o side
                         \o <<"'.", "Must be 'buy' or 'sell'.">>, <<>>)
           ELSE IF qty <= 0
           THEN Return(<<"Error", ":", "Quantity", "must", "be", "greater",
                         "than", "0.">>, <<>>)
           ELSE IF limit_price <= 0
           THEN Return(<<"Error", ":", "Limit", "price", "must", "be",
                         "greater", "than", "0.">>, <<>>)
           ELSE LET order_details ==
                        [kind |-> "LimitOrderRequest", symbol |-> symbol,
                         qty |-> qty, side |-> OrderSide(side),
                         time_in_force |-> "DAY", limit_price |-> limit_price]
                    cs == <<Call("trading", "submit_order", order_details, answer)>>
                IN
                IF answer.fault
                THEN Raise(answer.exc, cs)
                ELSE LET order == answer.value IN
                     Return(<<"Limit Order Submitted:", "Order ID:", order.id,
                              "Status:", order.status>>, cs),
           <<"Error", "placing", "limit", "order", ":">>)

place_limit_order(tc, symbol0, side0, qty, limit_price, answer) ==
    IF tc = None
    THEN Return(NotInitialized("Trading"), <<>>)
    ELSE TryExcept(
           LET symbol == upper(symbol0)
               side == lower(side0)
           IN
           IF side \notin ValidSides
           THEN Return(<<"Error", ":", "Invalid", "side", "'">> \o side
                         \o <<"'.", "Must be 'buy' or 'sell'.">>, <<>>)
           ELSE IF qty <= 0
           THEN Return(<<"Error", ":", "Quantity", "must", "be", "greater",
                         "than", "0.">>, <<>>)
           ELSE IF limit_price <= 0
           THEN Return(<<"Error", ":", "Limit", "price", "must", "be",
                         "greater", "than", "0.">>, <<>>)
           ELSE LET order_details ==
                        [kind |-> "LimitOrderRequest", symbol |-> symbol,
                         qty |-> qty, side |-> OrderSide(side),
                         time_in_force |-> "DAY", limit_price |-> limit_price]
                    cs == <<Call("trading", "submit_order", order_details, answer)>>
                IN
                IF answer.fault
                THEN Raise(answer.exc, cs)
                ELSE LET order == answer.value IN
                     Return(<<"Limit Order Submitted:", "Order ID:", order.id,
                              "Symbol:">> \o order.symbol \o
                            <<"Side:", order.side,
                              "Qty:", order.qty,
                              "Type:", order.type,
                              "Limit Price: $", order.limit_price,
                              "Status:", order.status,
                              "Submitted At:", order.submitted_at>>, cs),
           <<"Error", "placing", "limit", "order", ":">>)

\* cancel_order that looks the order up before it asks for the cancellation.
cancel_order_lookup_first(tc, order_id, answer) ==
    IF tc = None
    THEN Return(NotInitialized("Trading"), <<>>)
    ELSE TryExcept(
           LET cs == <<Call("trading", "get_order_by_id", order_id, answer),
                       Call("trading", "cancel_order_by_id", order_id, answer)>>
           IN
           IF answer.fault
           THEN Raise(answer.exc, cs)
           ELSE Return(<<"Order", order_id, "cancelled", "successfully.">>, cs),
           <<"Error", "cancelling", "order", order_id, ":">>)

cancel_order(tc, order_id, answer) ==
    IF tc = None
    THEN Return(NotInitialized("Trading"), <<>>)
    ELSE TryExcept(
           LET cs == <<Call("trading", "cancel_order_by_id", order_id, answer)>> IN
           IF answer.fault
           THEN Raise(answer.exc, cs)
           ELSE Return(<<"Order", order_id, "cancelled", "successfully.">>, cs),
           <<"Error", "cancelling", "order", order_id, ":">>)

\* sum(float(pos.unrealized_pl) for pos in positions)
RECURSIVE sum_unrealized_pl(_)
sum_unrealized_pl(positions) ==
    IF positions = <<>>
    THEN 0
    ELSE float(Head(positions).unrealized_pl) + sum_unrealized_pl(Tail(positions))

\* The sort step without reverse=True: p goes after every element whose key is
\* not larger than its own.
InsertByMarketValue_ascending(sorted_positions, p) ==
    LET n == Cardinality({i \in 1..Len(sorted_positions) :
                 float(sorted_positions[i].market_value) <= float(p.market_value)})
    IN SubSeq(sorted_positions, 1, n) \o <<p>>
         \o SubSeq(sorted_positions, n + 1, Len(sorted_positions))

\* One step of the stable descending sort: p goes after every element whose
\* key is not smaller than its own.
InsertByMarketValue(sorted_positions, p) ==
    LET n == Cardinality({i \in 1..Len(sorted_positions) :
                 float(sorted_positions[i].market_value) >= float(p.market_value)})
    IN SubSeq(sorted_positions, 1, n) \o <<p>>
         \o SubSeq(sorted_positions, n + 1, Len(sorted_positions))

\* sorted(positions, key=lambda p: float(p.market_value), reverse=True)
RECURSIVE sorted_by_market_value(_)
sorted_by_market_value(positions) ==
    IF positions = <<>>
    THEN <<>>
    ELSE InsertByMarketValue(
           sorted_by_market_value(SubSeq(positions, 1, Len(positions) - 1)),
           positions[Len(positions)])

\* The slice bound of sorted_positions[:5].
TopN == 5

\* f"{x:.2f}" of an amount in cents.
Format2f(cents) ==
    LET a == IF cents < 0 THEN -cents ELSE cents
        r == a % 100
    IN (IF cents < 0 THEN "-" ELSE "") \o ToString(a \div 100) \o "."
         \o (IF r < 10 THEN "0" ELSE "") \o ToString(r)

get_portfolio_summary(tc, account_answer, positions_answer) ==
    IF tc = None
    THEN Return(NotInitialized("Trading"), <<>>)
    ELSE TryExcept(
           LET c1 == Call("trading", "get_account", NoRequest, account_answer)
               c2 == Call("trading", "get_all_positions", NoRequest, positions_answer)
           IN
           IF account_answer.fault
           THEN Raise(account_answer.exc, <<c1>>)
           ELSE IF positions_answer.fault
           THEN Raise(positions_answer.exc, <<c1, c2>>)
           ELSE LET account == account_answer.value
                    positions == positions_answer.value
                    total_pl == IF positions # <<>>
                                THEN sum_unrealized_pl(positions)
                                ELSE 0
                    summary == <<"Portfolio Summary:",
                                 "Account Value: $", account.portfolio_value,
                                 "Cash Balance: $", account.cash,
                                 "Buying Power: $", account.buying_power,
                                 "Number of Positions:", ToString(Len(positions)),
                                 "Total Unrealized P/L: $", Format2f(total_pl),
                                 "Top Positions:">>
                IN
                IF positions # <<>>
                THEN LET sorted_positions == sorted_by_market_value(positions)
                         top_positions ==
                             SubSeq(sorted_positions, 1,
                                    IF Len(sorted_positions) < TopN
                                    THEN Len(sorted_positions) ELSE TopN)
                     IN Return(summary \o
                               ConcatAll([i \in 1..Len(top_positions) |->
                                 LET pos == top_positions[i] IN
                                 <<pos.symbol, ":", pos.qty, "shares @ $",
                                   pos.current_price,
                                   "Market Value: $", pos.market_value,
                                   "Unrealized P/L: $", pos.unrealized_pl,
                                   "(", pos.unrealized_plpc, "%)">>]),
                               <<c1, c2>>)
                ELSE Return(summary \o <<"No open positions.">>, <<c1, c2>>),
           <<"Error", "getting", "portfolio", "summary", ":">>)

\* One invocation of a handler: what it was given, what it saw, what it did.
Invocation(h, args, out) ==
    [handler |-> h, args |-> args, phase |-> pc,
     checked |-> [trading_client |-> task.trading_client,
                  data_client |-> task.data_client],
     trading_client |-> trading_client, data_client |-> data_client,
     raised |-> out.raised, exc |-> out.exc, text |-> out.text,
     calls |-> out.calls]

NoArgs == [none |-> TRUE]

\* A handler that declares `global trading_client` and drops the handle.
Frame_resets_trading_client ==
    /\ trading_client' = None
    /\ UNCHANGED <<ALPACA_API_KEY, ALPACA_API_SECRET, data_client, pc, built,
                   exit_cause>>

\* What no handler assigns: the module globals and the lifespan generator.
Frame == UNCHANGED <<ALPACA_API_KEY, ALPACA_API_SECRET, trading_client,
                     data_client, pc, built, exit_cause>>

GetAccountInfo ==
    /\ Running("get_account_info")
    /\ \E answer \in GetAccountAnswers :
        last' = Invocation("get_account_info", NoArgs,
                           get_account_info(task.trading_client, answer))
    /\ task' = Idle
    /\ Frame

GetAllPositions ==
    /\ Running("get_all_positions")
    /\ \E answer \in GetAllPositionsAnswers :
        last' = Invocation("get_all_positions", NoArgs,
                           get_all_positions(task.trading_client, answer))
    /\ task' = Idle
    /\ Frame

GetQuote ==
    /\ Running("get_quote")
    /\ \E symbol \in Symbols : \E answer \in GetQuoteAnswers(upper(symbol)) :
        last' = Invocation("get_quote", [symbol |-> symbol],
                           get_quote(task.data_client, symbol, answer))
    /\ task' = Idle
    /\ Frame

GetBars ==
    /\ Running("get_bars")
    /\ \E symbol \in Symbols : \E answer \in GetBarsAnswers(upper(symbol)) :
        last' = Invocation("get_bars", [symbol |-> symbol],
                           get_bars(task.data_client, symbol, answer))
    /\ task' = Idle
    /\ Frame

GetRecentOrders ==
    /\ Running("get_recent_orders")
    /\ \E answer \in GetOrdersAnswers :
        last' = Invocation("get_recent_orders", NoArgs,
                           get_recent_orders(task.trading_client, answer))
    /\ task' = Idle
    /\ Frame

\* The request submit_order would be given for these arguments; the API's
\* answer to it is drawn before the handler is run.
MarketOrderDetails(symbol, side, qty) ==
    [kind |-> "MarketOrderRequest", symbol |-> upper(symbol), qty |-> qty,
     side |-> OrderSide(lower(side)), time_in_force |-> "DAY"]

LimitOrderDetails(symbol, side, qty, limit_price) ==
    [kind |-> "LimitOrderRequest", symbol |-> upper(symbol), qty |-> qty,
     side |-> OrderSide(lower(side)), time_in_force |-> "DAY",
     limit_price |-> limit_price]

PlaceMarketOrder ==
    /\ Running("place_market_order")
    /\ \E symbol \in Symbols, side \in Sides, qty \in Qtys :
         \E answer \in SubmitOrderAnswers(MarketOrderDetails(symbol, side, qty)) :
           last' = Invocation("place_market_order",
                              [symbol |-> symbol, side |-> side, qty |-> qty],
                              place_market_order(task.trading_client, symbol, side,
                                                 qty, answer))
    /\ task' = Idle
    /\ Frame

PlaceLimitOrder ==
    /\ Running("place_limit_order")
    /\ \E symbol \in Symbols, side \in Sides, qty \in Qtys,
          limit_price \in LimitPrices :
         \E answer \in SubmitOrderAnswers(
                          LimitOrderDetails(symbol, side, qty, limit_price)) :
           last' = Invocation("place_limit_order",
                              [symbol |-> symbol, side |-> side, qty |-> qty,
                               limit_price |-> limit_price],
                              place_limit_order(task.trading_client, symbol, side,
                                                qty, limit_price, answer))
    /\ task' = Idle
    /\ Frame

CancelOrder ==
    /\ Running("cancel_order")
    /\ \E order_id \in CancelIds, answer \in CancelAnswers :
         last' = Invocation("cancel_order", [order_id |-> order_id],
                            cancel_order(task.trading_client, order_id, answer))
    /\ task' = Idle
    /\ Frame

GetPortfolioSummary ==
    /\ Running("get_portfolio_summary")
    /\ \E account_answer \in GetAccountAnswers,
          positions_answer \in GetAllPositionsAnswers :
         last' = Invocation("get_portfolio_summary", NoArgs,
                            get_portfolio_summary(task.trading_client, account_answer,
                                                  positions_answer))
    /\ task' = Idle
    /\ Frame

NoInvocation ==
    [handler |-> "none", args |-> NoArgs, phase |-> "not_entered",
     checked |-> [trading_client |-> None, data_client |-> None],
     trading_client |-> None, data_client |-> None,
     raised |-> FALSE, exc |-> "", text |-> <<>>, calls |-> <<>>]

\* The caller receives what the awaited handler returned (or raised).
Respond ==
    /\ last.handler # "none"
    /\ last' = NoInvocation
    /\ UNCHANGED task
    /\ Frame

(***************************************************************************)
(* The system.                                                             *)
(***************************************************************************)
Init ==
    /\ ALPACA_API_KEY \in EnvValues
    /\ ALPACA_API_SECRET \in EnvValues
    /\ trading_client = None
    /\ data_client = None
    /\ pc = "not_entered"
    /\ built = {}
    /\ exit_cause = ""
    /\ last = NoInvocation
    /\ task = Idle

Next ==
    \/ LifespanEnter
    \/ ConstructTradingClient
    \/ ConstructDataClient
    \/ ScopeBodyEnds
    \/ ExceptClause
    \/ FinallyClause
    \/ HandlerStarts
    \/ GetAccountInfo
    \/ GetAllPositions
    \/ GetQuote
    \/ GetBars
    \/ GetRecentOrders
    \/ PlaceMarketOrder
    \/ PlaceLimitOrder
    \/ CancelOrder
    \/ GetPortfolioSummary
    \/ Respond

Spec == Init /\ [][Next]_vars

(***************************************************************************)
(* Vocabulary of the properties.                                           *)
(***************************************************************************)
ReadOnlyHandlers ==
    { "get_account_info", "get_all_positions", "get_quote", "get_bars",
      "get_recent_orders" }

SymbolHandlers == {"get_quote", "get_bars"}

OrderHandlers == {"place_market_order", "place_limit_order"}

Invoked == last.handler \in Handlers

\* The handle the invoked handler uses, as it was when the handler ran.
HandleUsed ==
    IF last.handler \in SymbolHandlers
    THEN last.data_client
    ELSE last.trading_client

SaysNotInitialized == Contains(last.text, <<"not", "initialized">>)

IsErrorText(t) == Len(t) > 0 /\ t[1] = "Error"

NoCalls == Len(last.calls) = 0

LastCallFaulted ==
    Len(last.calls) > 0 /\ last.calls[Len(last.calls)].answer.fault

\* Case-insensitive comparison of a side with "buy" and with "sell".
IsBuy(s) ==
    /\ Len(s) = 3
    /\ s[1] \in {"b", "B"} /\ s[2] \in {"u", "U"} /\ s[3] \in {"y", "Y"}

IsSell(s) ==
    /\ Len(s) = 4
    /\ s[1] \in {"s", "S"} /\ s[2] \in {"e", "E"}
    /\ s[3] \in {"l", "L"} /\ s[4] \in {"l", "L"}

\* u is s with every lower-case letter replaced by its capital.
IsUpperCased(s, u) ==
    /\ Len(u) = Len(s)
    /\ \A i \in 1..Len(s) :
         \/ <<s[i], u[i]>> \in CasePairs
         \/ u[i] = s[i] /\ ~ \E q \in CasePairs : q[1] = s[i]

\* The arguments of the invoked order handler fail its validation.
OrderArgsInvalid ==
    \/ ~(IsBuy(last.args.side) \/ IsSell(last.args.side))
    \/ last.args.qty <= 0
    \/ last.handler = "place_limit_order" /\ last.args.limit_price <= 0

\* The invocation is stopped by an input check before any external call.
InputRejected ==
    \/ last.handler \in SymbolHandlers /\ last.args.symbol = <<>>
    \/ last.handler \in OrderHandlers /\ OrderArgsInvalid

(***************************************************************************)
(* C1.  Every handler, whatever its input, the state of the handles and    *)
(* the answer of the external API, returns a text and lets no fault out.   *)
(***************************************************************************)
C1_NoFaultEscapes ==
    Invoked => ~last.raised /\ Len(last.text) > 0

\* A handler ran with its handle present, the API call faulted, and the
\* handler returned an error text.
C1_Witness ==
    /\ last.handler = "get_quote"
    /\ last.data_client # None
    /\ LastCallFaulted
    /\ ~last.raised
    /\ IsErrorText(last.text)

(***************************************************************************)
(* C2.  As claimed: a read-only handler whose handle is unset returns a    *)
(* text containing "not initialized", for every input, and makes no call.  *)
(***************************************************************************)
C2_Original ==
    (last.handler \in ReadOnlyHandlers /\ HandleUsed = None)
        => SaysNotInitialized /\ NoCalls

(***************************************************************************)
(* C2, amended.  A read-only handler whose handle is unset makes no        *)
(* external call; its text contains "not initialized" unless it is         *)
(* get_quote or get_bars given an empty symbol, which answer that the      *)
(* symbol parameter is required.                                           *)
(***************************************************************************)
C2_UnsetHandleReadOnly ==
    (last.handler \in ReadOnlyHandlers /\ HandleUsed = None)
        => /\ NoCalls
           /\ ~last.raised
           /\ IF InputRejected
              THEN last.text = <<"Error", ":", "Symbol", "parameter", "is", "required">>
              ELSE SaysNotInitialized

\* get_bars ran for a non-empty symbol after the scope had exited.
C2_Witness ==
    /\ last.handler = "get_bars"
    /\ last.args.symbol = <<"a", "a", "p", "l">>
    /\ last.phase = "exited"
    /\ last.data_client = None
    /\ SaysNotInitialized
    /\ NoCalls

(***************************************************************************)
(* C3.  An order handler given a side that is neither buy nor sell         *)
(* (compared without regard to case), a quantity <= 0 or (limit orders) a  *)
(* limit price <= 0 returns an error text and never calls submit_order.    *)
(***************************************************************************)
C3_InvalidOrderNotSubmitted ==
    (last.handler \in OrderHandlers /\ OrderArgsInvalid)
        => /\ IsErrorText(last.text)
           /\ ~last.raised
           /\ \A i \in 1..Len(last.calls) : last.calls[i].method # "submit_order"

\* A market order for quantity 0, otherwise valid, was refused while the
\* trading client was present.
C3_Witness ==
    /\ last.handler = "place_market_order"
    /\ last.trading_client # None
    /\ IsBuy(last.args.side)
    /\ last.args.qty = 0
    /\ IsErrorText(last.text)
    /\ NoCalls

(***************************************************************************)
(* C4.  As claimed: in every reachable state, startup included, the two    *)
(* handles are both present or both absent.                                *)
(***************************************************************************)
C4_Original ==
    (trading_client = None) <=> (data_client = None)

(***************************************************************************)
(* C4, amended.  Whenever a handler can run (before the scope is entered,  *)
(* while it is yielded, after it has exited) the two handles are both      *)
(* present or both absent, and present exactly while the scope is yielded; *)
(* between the construction of the trading client and either the           *)
(* construction of the data client or the finally clause, trading_client   *)
(* is present and data_client is absent.  data_client is never present     *)
(* without trading_client.                                                 *)
(***************************************************************************)
C4_HandlesPairedOutsideStartup ==
    /\ pc \in {"not_entered", "in_try", "exited"}
         => trading_client = None /\ data_client = None
    /\ pc = "yielded" => trading_client # None /\ data_client # None
    /\ pc = "trading_built" => trading_client # None /\ data_client = None
    /\ data_client # None => trading_client # None

\* The construction of the data client failed after the trading client had
\* been built, and the scope has exited.
C4_Witness ==
    /\ pc = "exited"
    /\ exit_cause = "Exception"
    /\ built = {"trading"}
    /\ trading_client = None
    /\ data_client = None

(***************************************************************************)
(* C5.  As claimed: however the scope exits, both handles are cleared      *)
(* afterwards, and every handler invoked after the exit reports the        *)
(* uninitialized-client error and uses no handle.                          *)
(***************************************************************************)
C5_Original ==
    /\ pc = "exited" => trading_client = None /\ data_client = None
    /\ (Invoked /\ last.phase = "exited") => SaysNotInitialized /\ NoCalls

(***************************************************************************)
(* C5, amended.  However the scope exits, both handles are cleared         *)
(* afterwards, and a handler invoked after the exit makes no external call *)
(* and reports the uninitialized-client error, except get_quote and        *)
(* get_bars given an empty symbol, which report that the symbol parameter  *)
(* is required.                                                            *)
(***************************************************************************)
C5_ClearedAfterExit ==
    /\ pc = "exited" => trading_client = None /\ data_client = None
    /\ (Invoked /\ last.phase = "exited")
         => /\ NoCalls
            /\ ~last.raised
            /\ last.trading_client = None /\ last.data_client = None
            /\ IF last.handler \in SymbolHandlers /\ last.args.symbol = <<>>
               THEN last.text = <<"Error", ":", "Symbol", "parameter", "is", "required">>
               ELSE SaysNotInitialized

\* Both clients were built, a fault ended the scope while it was yielded, and
\* a handler invoked afterwards reported the uninitialized client.
C5_Witness ==
    /\ pc = "exited"
    /\ exit_cause = "Exception"
    /\ built = {"trading", "data"}
    /\ last.handler = "place_market_order"
    /\ last.phase = "exited"
    /\ SaysNotInitialized

\* A credential is unset or empty.
CredentialAbsent ==
    \/ ALPACA_API_KEY \in {None, ""}
    \/ ALPACA_API_SECRET \in {None, ""}

(***************************************************************************)
(* C6.  With a credential missing or empty, entering the scope raises the  *)
(* configuration error before any client is constructed, the scope never   *)
(* yields, both handles stay absent, and no external call is ever made.    *)
(***************************************************************************)
C6_MissingCredentialsAbort ==
    CredentialAbsent
        => /\ pc \in {"not_entered", "exited"}
           /\ pc = "exited" => exit_cause = "ValueError"
           /\ built = {}
           /\ trading_client = None /\ data_client = None
           /\ NoCalls

\* The key is set and the secret is empty, and the scope was entered.
C6_Witness ==
    /\ ALPACA_API_KEY = "PK123"
    /\ ALPACA_API_SECRET = ""
    /\ pc = "exited"
    /\ exit_cause = "ValueError"

(***************************************************************************)
(* C7.  place_limit_order with the trading client present, a side that is  *)
(* buy or sell in any letter case, qty > 0 and limit_price > 0 submits     *)
(* exactly one order: the upper-cased symbol, BUY or SELL as the input     *)
(* says, the given quantity and limit price, day time-in-force; and the    *)
(* text it returns for the order the API answered with contains that       *)
(* order's identifier and status.                                          *)
(***************************************************************************)
C7_LimitOrderSubmitted ==
    ( /\ last.handler = "place_limit_order"
      /\ last.trading_client # None
      /\ IsBuy(last.args.side) \/ IsSell(last.args.side)
      /\ last.args.qty > 0
      /\ last.args.limit_price > 0 )
        => /\ Len(last.calls) = 1
           /\ LET c == last.calls[1] IN
              /\ c.client = "trading"
              /\ c.method = "submit_order"
              /\ c.request.kind = "LimitOrderRequest"
              /\ IsUpperCased(last.args.symbol, c.request.symbol)
              /\ c.request.side = (IF IsBuy(last.args.side) THEN "BUY" ELSE "SELL")
              /\ c.request.qty = last.args.qty
              /\ c.request.limit_price = last.args.limit_price
              /\ c.request.time_in_force = "DAY"
              /\ ~last.raised
              /\ ~c.answer.fault
                   => /\ Contains(last.text, <<"Order ID:", c.answer.value.id>>)
                      /\ Contains(last.text, <<"Status:", c.answer.value.status>>)

\* place_limit_order("aapl", "BUY", 1, 150) was answered with order o-2 in
\* status accepted.
C7_Witness ==
    /\ last.handler = "place_limit_order"
    /\ last.args = [symbol |-> <<"a", "a", "p", "l">>, side |-> <<"B", "U", "Y">>,
                    qty |-> 1, limit_price |-> 150]
    /\ Len(last.calls) = 1
    /\ last.calls[1].request.symbol = <<"A", "A", "P", "L">>
    /\ last.calls[1].request.side = "BUY"
    /\ Contains(last.text, <<"Order ID:", "o-2">>)
    /\ Contains(last.text, <<"Status:", "accepted">>)

(***************************************************************************)
(* C8.  cancel_order with the trading client present issues exactly one    *)
(* request, the cancellation of the given id, with no lookup before it; on *)
(* success it returns "Order <id> cancelled successfully.", on a fault a   *)
(* text that begins with "Error cancelling order <id>:".                   *)
(***************************************************************************)
C8_CancelOrder ==
    (last.handler = "cancel_order" /\ last.trading_client # None)
        => /\ Len(last.calls) = 1
           /\ last.calls[1].method = "cancel_order_by_id"
           /\ last.calls[1].request = last.args.order_id
           /\ ~last.raised
           /\ IF last.calls[1].answer.fault
              THEN BeginsWith(last.text,
                     <<"Error", "cancelling", "order", last.args.order_id, ":">>)
              ELSE last.text =
                     <<"Order", last.args.order_id, "cancelled", "successfully.">>

\* cancel_order("123") met a fault of the API.
C8_Witness ==
    /\ last.handler = "cancel_order"
    /\ last.args.order_id = "123"
    /\ last.trading_client # None
    /\ LastCallFaulted
    /\ BeginsWith(last.text, <<"Error", "cancelling", "order", "123", ":">>)

\* The indices of text t that hold the label, in increasing order.
IndicesOf(t, label) ==
    LET I == {i \in 1..Len(t) : t[i] = label} IN
    [k \in 1..Cardinality(I) |->
        CHOOSE i \in I : Cardinality({j \in I : j < i}) = k - 1]

\* The token that follows the label, and the tokens `off` places from each
\* occurrence of the label.
TokenAfter(t, label) == t[IndicesOf(t, label)[1] + 1]

TokensAt(t, label, off) ==
    LET ix == IndicesOf(t, label) IN [k \in 1..Len(ix) |-> t[ix[k] + off]]

\* The sum of the unrealized P/L of the positions of ps at the indices in I.
RECURSIVE PLOver(_, _)
PLOver(ps, I) ==
    IF I = {}
    THEN 0
    ELSE LET i == CHOOSE j \in I : TRUE IN
         float(ps[i].unrealized_pl) + PLOver(ps, I \ {i})

PortfolioAnswered ==
    /\ last.handler = "get_portfolio_summary"
    /\ last.trading_client # None
    /\ Len(last.calls) = 2
    /\ ~last.calls[1].answer.fault
    /\ ~last.calls[2].answer.fault

(***************************************************************************)
(* C9.  get_portfolio_summary with the trading client present and both     *)
(* API calls answered: the reported total unrealized P/L is the sum of the *)
(* positions' unrealized P/L; with no position the total is 0 and the text *)
(* says there are no open positions; the listed positions are in           *)
(* descending order of market value, number min(5, count), and are the     *)
(* positions with the largest market values.                               *)
(***************************************************************************)
C9_PortfolioSummary ==
    PortfolioAnswered =>
        LET positions == last.calls[2].answer.value
            total == TokenAfter(last.text, "Total Unrealized P/L: $")
            listed == TokensAt(last.text, "shares @ $", -3)
            values == TokensAt(last.text, "Market Value: $", 1)
            count == IF Len(positions) < 5 THEN Len(positions) ELSE 5
        IN
        /\ ~last.raised
        /\ total = Format2f(PLOver(positions, 1..Len(positions)))
        /\ positions = <<>>
             => total = "0.00" /\ Contains(last.text, <<"No open positions.">>)
        /\ positions # <<>> => ~Contains(last.text, <<"No open positions.">>)
        /\ Len(listed) = count /\ Len(values) = count
        /\ \A i, j \in 1..count : i < j => float(values[i]) >= float(values[j])
        /\ \A i, j \in 1..count : i # j => listed[i] # listed[j]
        /\ \A i \in 1..count :
             \E k \in 1..Len(positions) :
                /\ positions[k].symbol = listed[i]
                /\ positions[k].market_value = values[i]
        /\ \A k \in 1..Len(positions) :
             positions[k].symbol \notin Range(listed)
               => \A i \in 1..count :
                    float(positions[k].market_value) <= float(values[i])

\* Six positions were answered, the smallest of them first: five are listed,
\* the largest first, and the total of all six is reported.
C9_Witness ==
    /\ PortfolioAnswered
    /\ Len(last.calls[2].answer.value) = 6
    /\ last.calls[2].answer.value[1].symbol = "EBAY"
    /\ last.calls[2].answer.value[2].symbol = "F"
    /\ "GE" \in {last.calls[2].answer.value[i].symbol : i \in 1..6}
    /\ "AAPL" \notin {last.calls[2].answer.value[i].symbol : i \in 1..6}
    /\ TokensAt(last.text, "shares @ $", -3)[1] = "F"
    /\ Len(TokensAt(last.text, "shares @ $", -3)) = 5
    /\ "EBAY" \notin Range(TokensAt(last.text, "shares @ $", -3))
    /\ TokenAfter(last.text, "Total Unrealized P/L: $") = "-2.00"

(***************************************************************************)
(* C10.  As claimed: every handler invocation makes exactly one external   *)
(* call.                                                                   *)
(***************************************************************************)
C10_Original ==
    Invoked => Len(last.calls) = 1

(***************************************************************************)
(* C10, amended.  A handler invocation stopped by the uninitialized-client *)
(* check or by an input check makes no external call; any other makes      *)
(* exactly one, except get_portfolio_summary, which calls get_account and  *)
(* then, unless that faulted, get_all_positions: two calls.                *)
(***************************************************************************)
C10_CallsPerInvocation ==
    Invoked =>
        IF HandleUsed = None \/ InputRejected
        THEN Len(last.calls) = 0
        ELSE IF last.handler = "get_portfolio_summary"
        THEN /\ last.calls[1].method = "get_account"
             /\ IF last.calls[1].answer.fault
                THEN Len(last.calls) = 1
                ELSE /\ Len(last.calls) = 2
                     /\ last.calls[2].method = "get_all_positions"
        ELSE Len(last.calls) = 1

\* get_portfolio_summary made its two calls.
C10_Witness ==
    /\ last.handler = "get_portfolio_summary"
    /\ Len(last.calls) = 2
    /\ last.calls[1].method = "get_account"
    /\ last.calls[2].method = "get_all_positions"

(***************************************************************************)
(* C11.  No step of a handler (its start, its call and return, the         *)
(* delivery of its result) changes either client handle, whatever the      *)
(* input and the outcome; a handle changes only in a step of               *)
(* alpaca_lifespan: it is set, from None, by the construction of its       *)
(* client at startup, and cleared by the finally clause at the exit of     *)
(* the scope.                                                              *)
(***************************************************************************)
C11_OnlyLifespanWritesHandles ==
    [][ /\ (task' # task \/ last' # last)
            => trading_client' = trading_client /\ data_client' = data_client
        /\ trading_client' # trading_client
            => \/ pc = "in_try" /\ pc' = "trading_built" /\ trading_client = None
               \/ pc = "finally" /\ pc' = "exited" /\ trading_client' = None
        /\ data_client' # data_client
            => \/ pc = "trading_built" /\ pc' = "yielded" /\ data_client = None
               \/ pc = "finally" /\ pc' = "exited" /\ data_client' = None
      ]_vars

\* cancel_order met a fault of the API while the scope was yielded, and both
\* handles are still the clients built at startup.
C11_Witness ==
    /\ last.handler = "cancel_order"
    /\ last.phase = "yielded"
    /\ LastCallFaulted
    /\ pc = "yielded"
    /\ trading_client = TradingClient
    /\ data_client = StockHistoricalDataClient

(***************************************************************************)
(* C12.  Under every interleaving of handlers with the steps of            *)
(* alpaca_lifespan, the handle a handler's check read is the handle its    *)
(* call goes through: the globals do not change while a handler is in its  *)
(* step, and no external call is made with the handle absent.              *)
(***************************************************************************)
C12_CheckAndUseAgree ==
    /\ task # Idle
         => task.trading_client = trading_client /\ task.data_client = data_client
    /\ Invoked
         => /\ last.checked.trading_client = last.trading_client
            /\ last.checked.data_client = last.data_client
    /\ (Invoked /\ ~NoCalls) => HandleUsed # None

\* A handler made its call while the scope was yielded, and the scope has
\* exited since, before the result was delivered.
C12_Witness ==
    /\ last.handler = "get_account_info"
    /\ last.phase = "yielded"
    /\ ~NoCalls
    /\ last.checked.trading_client = TradingClient
    /\ pc = "exited"
    /\ trading_client = None

====
